---- MODULE Spec2Model ----
(***************************************************************************)
(* A model of look_up.py, the gm/Id table lookup: the array normalizer     *)
(* (_correct_arr), forward lookup (_look_up_basic, look_up_basic), the     *)
(* ratio inversion at a point (_look_up_vs_ratio), the swept driver        *)
(* (_look_up_vs_ratio_swp and its three named entry points) and the VGS    *)
(* solver (look_up_vgs_vs_gm_id).                                          *)
(*                                                                         *)
(* Numbers.  A Python float is modelled as an exact rational <<n, d>> with  *)
(* d > 0 in lowest terms; <<1, 0>>, <<-1, 0>> and <<0, 0>> are inf, -inf   *)
(* and nan, and the arithmetic and the comparisons below treat them as     *)
(* IEEE arithmetic does.  A rational stands for the double nearest to it,  *)
(* and the arithmetic is exact.  n and d are integers below 2^31: a number *)
(* that needs more is outside the model, as is the zero of negative sign.  *)
(* A Python int is its value over 1; a number value says which of the two  *)
(* it is, an array has dtype int when all it was made of are ints.  The    *)
(* tables of this model hold positive data, so no denominator of a ratio   *)
(* is zero.  numpy is taken as of version 1.24 or later: a list whose      *)
(* members differ in shape is a ValueError, not an object array.  bool()   *)
(* of an array with no element is False up to version 2.1 and a ValueError *)
(* from version 2.2; the source asks for neither, and numpy says which of  *)
(* the two the program runs on: "1.24" for 1.24 to 2.1, "2.2" for 2.2 and  *)
(* later.                                                                  *)
(*                                                                         *)
(* Strings.  A Python str is the sequence of its characters, each a        *)
(* one-character string: 'GM_ID' is <<"G", "M", "_", "I", "D">>.  The      *)
(* characters are those a string of this language can hold: the code       *)
(* points 0 to 255 without the grave accent (96).                          *)
(*                                                                         *)
(* Python values.  A value an entry point can be handed is a record        *)
(* [t, n, s, e, shape]: t is the Python type, n the value of a number, e   *)
(* the characters of a str, the elements of a list or tuple (values again) *)
(* or the row-major elements of an ndarray, s the dtype of an ndarray (of  *)
(* a number, whether it is an int or a float) and shape the shape of an    *)
(* ndarray.  The elements of an int or float array are rationals, those of *)
(* a str array strs (character sequences), those of an object array        *)
(* values, those of a bool array booleans.                                 *)
(***************************************************************************)
EXTENDS Integers, Sequences, FiniteSets, TLC

VARIABLES numpy, data_dict, pc, fn, args, loc, calls, result

vars == <<numpy, data_dict, pc, fn, args, loc, calls, result>>

(***************************************************************************)
(* Float arithmetic                                                        *)
(***************************************************************************)
Abs(n) == IF n < 0 THEN -n ELSE n

RECURSIVE GCD(_, _)
GCD(a, b) == IF b = 0 THEN a ELSE GCD(b, a % b)

Rat(n, d) ==
    IF d = 0 THEN <<(IF n > 0 THEN 1 ELSE IF n < 0 THEN -1 ELSE 0), 0>>
    ELSE LET s == IF d < 0 THEN -1 ELSE 1
             g == GCD(Abs(n), Abs(d))
         IN  <<(s * n) \div g, (s * d) \div g>>

R(n) == <<n, 1>>
Zero == R(0)
NaN == <<0, 0>>

IsNaN(a) == a[2] = 0 /\ a[1] = 0
IsInf(a) == a[2] = 0 /\ a[1] # 0

RNeg(a) == <<-a[1], a[2]>>

RAdd(a, b) ==
    IF IsNaN(a) \/ IsNaN(b) THEN NaN
    ELSE IF IsInf(a) THEN (IF IsInf(b) /\ b # a THEN NaN ELSE a)
    ELSE IF IsInf(b) THEN b
    ELSE Rat(a[1] * b[2] + b[1] * a[2], a[2] * b[2])

RSub(a, b) == RAdd(a, RNeg(b))

RMul(a, b) == Rat(a[1] * b[1], a[2] * b[2])

RDiv(a, b) ==
    IF b[1] < 0 THEN Rat(-(a[1] * b[2]), -(a[2] * b[1]))
    ELSE Rat(a[1] * b[2], a[2] * b[1])

\* The place of a on the extended line: -1 for -inf, 1 for inf, 0 between.
Ext(a) == IF a[2] = 0 THEN a[1] ELSE 0

RLt(a, b) ==
    /\ ~IsNaN(a)
    /\ ~IsNaN(b)
    /\ IF a[2] = 0 \/ b[2] = 0 THEN Ext(a) < Ext(b)
       ELSE a[1] * b[2] < b[1] * a[2]

RLe(a, b) ==
    /\ ~IsNaN(a)
    /\ ~IsNaN(b)
    /\ IF a[2] = 0 \/ b[2] = 0 THEN Ext(a) <= Ext(b)
       ELSE a[1] * b[2] <= b[1] * a[2]

RSeq(s) == [i \in 1..Len(s) |-> R(s[i])]

(***************************************************************************)
(* Strings                                                                 *)
(***************************************************************************)
\* The characters of code points 1 to 255 in code point order, the grave
\* accent (96) left out; the control characters stand as themselves.
Chars ==
    "\t\n\f\r"
    \o " !\"#$%&'()*+,-./0123456789:;"
    \o "<=>?@ABCDEFGHIJKLMNOPQRSTUVWXYZ["
    \o "\\]^_abcdefghijklmnopqrstuvwxyz{"
    \o "|}~"
    \o " ¡¢£¤¥¦§¨©ª«¬­®¯°±²³´µ¶·¸¹º»"
    \o "¼½¾¿ÀÁÂÃÄÅÆÇÈÉÊËÌÍÎÏÐÑÒÓÔÕÖ×ØÙÚÛ"
    \o "ÜÝÞßàáâãäåæçèéêëìíîïðñòóôõö÷øùúû"
    \o "üýþÿ"

\* chr(k) for a code point k of Chars.
Chr(k) == SubSeq(Chars, IF k < 96 THEN k ELSE k - 1, IF k < 96 THEN k ELSE k - 1)

\* ord(c).  The one character that is not in Chars is that of code point 0.
Ord(c) ==
    LET at == {k \in (1..255) \ {96} : Chr(k) = c}
    IN  IF at = {} THEN 0 ELSE CHOOSE k \in at : TRUE

\* a < b for two strs: the first place where they differ decides, and a
\* proper prefix is less.
RECURSIVE StrLess(_, _)
StrLess(a, b) ==
    IF b = <<>> THEN FALSE
    ELSE IF a = <<>> THEN TRUE
    ELSE IF Head(a) = Head(b) THEN StrLess(Tail(a), Tail(b))
    ELSE Ord(Head(a)) < Ord(Head(b))

Digits == <<"0", "1", "2", "3", "4", "5", "6", "7", "8", "9">>

IsDigit(c) == \E d \in 1..Len(Digits) : Digits[d] = c
DigitOf(c) == (CHOOSE d \in 1..Len(Digits) : Digits[d] = c) - 1

\* The blanks float() drops: tab, line feed, vertical tab, form feed,
\* carriage return, space, next line and no-break space.
IsSpace(c) == Ord(c) \in {9, 10, 11, 12, 13, 32, 133, 160}

RECURSIVE LStrip(_)
LStrip(cs) ==
    IF cs # <<>> /\ IsSpace(Head(cs)) THEN LStrip(Tail(cs)) ELSE cs

RECURSIVE RStrip(_)
RStrip(cs) ==
    IF cs # <<>> /\ IsSpace(cs[Len(cs)])
    THEN RStrip(SubSeq(cs, 1, Len(cs) - 1))
    ELSE cs

Lower(c) ==
    IF Ord(c) >= Ord("A") /\ Ord(c) <= Ord("Z")
    THEN Chr(Ord(c) + Ord("a") - Ord("A"))
    ELSE c

\* The number of digits of cs from position i on.
RECURSIVE DigitRun(_, _)
DigitRun(cs, i) ==
    IF i <= Len(cs) /\ IsDigit(cs[i]) THEN 1 + DigitRun(cs, i + 1) ELSE 0

\* The natural number a run of digits writes; 0 for the empty run.
RECURSIVE Natural(_)
Natural(ds) ==
    IF ds = <<>> THEN 0
    ELSE 10 * Natural(SubSeq(ds, 1, Len(ds) - 1)) + DigitOf(ds[Len(ds)])

\* The characters of a natural number.
RECURSIVE NatChars(_)
NatChars(n) ==
    IF n < 10 THEN <<Digits[n + 1]>>
    ELSE NatChars(n \div 10) \o <<Digits[(n % 10) + 1]>>

(***************************************************************************)
(* str(x) of a float: the fewest digits that read back as x, written with  *)
(* a point, or with an exponent when x is below 1e-4 or is 1e16 or more.   *)
(* The digits come from the double nearest to the rational, which takes    *)
(* more than 31 bits: natural numbers of any size are written in base      *)
(* 10000, the most significant place first, <<>> for 0.                    *)
(***************************************************************************)
\* a * k + carry, k at most 2^17.
RECURSIVE BigTimes(_, _, _)
BigTimes(a, k, carry) ==
    IF a = <<>>
    THEN (IF carry = 0 THEN <<>>
          ELSE BigTimes(<<>>, k, carry \div 10000) \o <<carry % 10000>>)
    ELSE BigTimes(SubSeq(a, 1, Len(a) - 1), k,
                  (a[Len(a)] * k + carry) \div 10000)
         \o <<(a[Len(a)] * k + carry) % 10000>>

\* a * 5^j
RECURSIVE BigScale(_, _)
BigScale(a, j) ==
    IF j >= 7 THEN BigScale(BigTimes(a, 78125, 0), j - 7)
    ELSE BigTimes(a, 5^j, 0)

\* m followed by the next need binary digits of rem / d, rem < d, the last
\* place rounded to nearest, to even on a tie.  The digits are taken 17 at
\* a time: Chunk gives the next c of them after those of acc, and what is
\* left of the fraction.
RECURSIVE Mantissa(_, _, _, _)
Mantissa(m, need, rem, d) ==
    LET RECURSIVE Chunk(_, _, _)
        Chunk(acc, c, left) ==
            IF c = 0 THEN <<acc, left>>
            ELSE IF left >= d - left
            THEN Chunk(2 * acc + 1, c - 1, left - (d - left))
            ELSE Chunk(2 * acc, c - 1, left + left)
        Onward(c, next) ==
            Mantissa(BigTimes(m, 2^c, next[1]), need - c, next[2], d)
        Take(c) == Onward(c, Chunk(0, c, rem))
    IN  IF need = 0
        THEN (IF rem > d - rem \/ (rem = d - rem /\ m[Len(m)] % 2 = 1)
              THEN BigTimes(m, 1, 1) ELSE m)
        ELSE Take(IF need > 17 THEN 17 ELSE need)

\* The double nearest to n / d, n and d positive: m / 2^k with 53 binary
\* digits in m.
Nearest(n, d) ==
    LET RECURSIVE BitLength(_)
        BitLength(i) == IF i = 0 THEN 0 ELSE 1 + BitLength(i \div 2)
        RECURSIVE LeadingZeros(_)
        LeadingZeros(rem) ==
            IF rem >= d - rem THEN 0 ELSE 1 + LeadingZeros(rem + rem)
    IN  IF n >= d
        THEN [m |-> Mantissa(BigTimes(<<>>, 1, n \div d),
                             53 - BitLength(n \div d), n % d, d),
              k |-> 53 - BitLength(n \div d)]
        ELSE [m |-> Mantissa(<<>>, 53, n * 2^LeadingZeros(n), d),
              k |-> 53 + LeadingZeros(n)]

\* The fewest leading digits that name a number from lower to upper (digit
\* sequences of one length), and of these the nearest to value.
Shortest(lower, value, upper) ==
    LET RECURSIVE Increment(_)
        Increment(ds) ==
            IF ds = <<>> THEN <<1>>
            ELSE IF ds[Len(ds)] < 9
            THEN SubSeq(ds, 1, Len(ds) - 1) \o <<ds[Len(ds)] + 1>>
            ELSE Increment(SubSeq(ds, 1, Len(ds) - 1)) \o <<0>>
        Less(a, b) ==
            \/ Len(a) < Len(b)
            \/ /\ Len(a) = Len(b)
               /\ \E i \in 1..Len(a) :
                     a[i] < b[i] /\ \A j \in 1..(i - 1) : a[j] = b[j]
        \* The first p digits of a, rounded up and rounded to nearest.
        Up(a, p) == IF \E i \in (p + 1)..Len(a) : a[i] # 0
                    THEN Increment(SubSeq(a, 1, p))
                    ELSE SubSeq(a, 1, p)
        Round(a, p, half, rest) ==
            IF p < Len(a)
               /\ (Less(half, rest) \/ (half = rest /\ a[p] % 2 = 1))
            THEN Increment(SubSeq(a, 1, p))
            ELSE SubSeq(a, 1, p)
        Fits(p) == ~Less(SubSeq(upper, 1, p), Up(lower, p))
        Within(least, near, most) ==
            IF Less(most, near) THEN most
            ELSE IF Less(near, least) THEN least
            ELSE near
        Chosen(p) ==
            Within(Up(lower, p),
                   Round(value, p,
                         <<5>> \o [i \in 1..(Len(value) - p - 1) |-> 0],
                         SubSeq(value, p + 1, Len(value))),
                   SubSeq(upper, 1, p))
    IN  Chosen(CHOOSE i \in 1..Len(upper) :
                    Fits(i) /\ \A j \in 1..(i - 1) : ~Fits(j))

\* The digits ds of str(x), x the double nearest to n / d, and the place of
\* the point: x is 0.ds * 10^point.  Every decimal nearer to x than to the
\* doubles next to it reads back as x; the gap below a power of two is half
\* the gap above it.  The three numbers are written over 10^q, q = x.k + 2,
\* in as many digits as the largest of them has.
Repr(n, d) ==
    LET Length(a) ==
            4 * (Len(a) - 1)
              + (IF a[1] >= 1000 THEN 4 ELSE IF a[1] >= 100 THEN 3
                 ELSE IF a[1] >= 10 THEN 2 ELSE 1)
        \* The last len decimal digits of a, zeros in front where a has
        \* fewer.
        BigDigits(a, len) ==
            [i \in 1..len |->
                IF 4 * Len(a) - len + i < 1 THEN 0
                ELSE (a[((4 * Len(a) - len + i - 1) \div 4) + 1]
                        \div (10^(3 - ((4 * Len(a) - len + i - 1) % 4)))) % 10]
        Written(below, mid, top, len, q) ==
            [ds |-> Shortest(BigDigits(below, len), BigDigits(mid, len),
                             BigDigits(top, len)),
             point |-> len - q]
        Between(below, mid, top, q) ==
            Written(below, mid, top, Length(top), q)
        Around(m, q, gap) ==
            Between(BigScale(BigTimes(m, 4, gap), q),
                    BigScale(BigTimes(m, 4, 0), q),
                    BigScale(BigTimes(m, 4, 2), q), q)
        Of(x) ==
            Around(x.m, x.k + 2,
                   IF \E j \in 0..30 : (n = 1 /\ d = 2^j) \/ (d = 1 /\ n = 2^j)
                   THEN -1 ELSE -2)
    IN  Of(Nearest(n, d))

\* str(x) of a float, as np.array writes a float that shares a list with
\* strs.
float_to_str(r) ==
    LET Zeros(k) == [i \in 1..k |-> "0"]
        Exponent(ex) ==
            (IF ex < 10 THEN <<"0">> ELSE <<>>) \o NatChars(ex)
        Written(ds, point) ==
            IF point <= -4 \/ point > 16
            THEN <<ds[1]>>
                 \o (IF Len(ds) > 1 THEN <<".">> \o Tail(ds) ELSE <<>>)
                 \o <<"e", IF point < 1 THEN "-" ELSE "+">>
                 \o Exponent(IF point < 1 THEN 1 - point ELSE point - 1)
            ELSE IF point <= 0
            THEN <<"0", ".">> \o Zeros(-point) \o ds
            ELSE IF point >= Len(ds)
            THEN ds \o Zeros(point - Len(ds)) \o <<".", "0">>
            ELSE SubSeq(ds, 1, point) \o <<".">>
                 \o SubSeq(ds, point + 1, Len(ds))
        Of(x) == Written([i \in 1..Len(x.ds) |-> Digits[x.ds[i] + 1]], x.point)
    IN  IF IsNaN(r) THEN <<"n", "a", "n">>
        ELSE (IF r[1] < 0 THEN <<"-">> ELSE <<>>)
             \o (IF IsInf(r) THEN <<"i", "n", "f">>
                 ELSE IF r[1] = 0 THEN <<"0", ".", "0">>
                 ELSE Of(Repr(Abs(r[1]), r[2])))

(***************************************************************************)
(* Python values                                                           *)
(***************************************************************************)
None == [t |-> "None", n |-> Zero, s |-> "", e |-> <<>>, shape |-> <<>>]
\* A Python (or numpy) float and a Python (or numpy) int.
Num(r) ==
    [t |-> "number", n |-> r, s |-> "float", e |-> <<>>, shape |-> <<>>]
IntNum(k) ==
    [t |-> "number", n |-> R(k), s |-> "int", e |-> <<>>, shape |-> <<>>]
Str(cs) == [t |-> "str", n |-> Zero, s |-> "", e |-> cs, shape |-> <<>>]
List(es) == [t |-> "list", n |-> Zero, s |-> "", e |-> es, shape |-> <<>>]
Tuple(es) == [t |-> "tuple", n |-> Zero, s |-> "", e |-> es, shape |-> <<>>]
NdArray(dtype, shape, flat) ==
    [t |-> "ndarray", n |-> Zero, s |-> dtype, e |-> flat, shape |-> shape]

\* A 1-D float array of the given rationals.
Vec(rs) == NdArray("float", <<Len(rs)>>, rs)

\* A list of ints.
NumList(ns) == List([i \in 1..Len(ns) |-> IntNum(ns[i])])

RECURSIVE Prod(_)
Prod(shape) == IF shape = <<>> THEN 1 ELSE Head(shape) * Prod(Tail(shape))

RECURSIVE Concat(_)
Concat(ss) == IF ss = <<>> THEN <<>> ELSE Head(ss) \o Concat(Tail(ss))

(***************************************************************************)
(* What a function gives back: a value, or the error it raised.  err names *)
(* the exception and the place that raises it.                             *)
(*   InvalidInput   ValueError, _correct_arr, line 66                      *)
(*   OutOfDomain    ValueError, RegularGridInterpolator.__call__           *)
(*   Unachievable   ValueError, _look_up_vs_ratio, line 110                *)
(*   Interp1d       ValueError, interp1d: too few or repeated x, x not     *)
(*                  1-D, an object array or a new x outside the range      *)
(*   EmptySequence  ValueError, min() or max() of an empty array           *)
(*   NumpyError     ValueError, numpy: a ragged list, a text that is not a *)
(*                  number, shapes that do not fit, the truth value of an  *)
(*                  array that has not exactly one element                 *)
(*   TypeError      a comparison of a str or None with a number, float()   *)
(*                  of None, len() or iteration of a 0-d array, a call of  *)
(*                  an axis array                                          *)
(*   KeyError       data_dict[name], name not a key of the table           *)
(*   IndexError     shape[0] of a 0-d array                                *)
(***************************************************************************)
Ok(v) == [ok |-> TRUE, err |-> "", val |-> v]
Raise(e) == [ok |-> FALSE, err |-> e, val |-> None]

\* The first position of a sequence of outcomes that is an error.
FirstBad(rs) ==
    CHOOSE k \in 1..Len(rs) : ~rs[k].ok /\ \A j \in 1..(k - 1) : rs[j].ok

(***************************************************************************)
(* float(text), as numpy casts a str to a float: blanks around the text    *)
(* are dropped; a sign, then inf, infinity or nan in any case, or digits   *)
(* with at most one point and an optional exponent.  Two digits may have   *)
(* one underscore between them.  Any other text is a ValueError.           *)
(***************************************************************************)
\* The exponent part: empty, or e or E, an optional sign and digits.
IsExponent(cs) ==
    \/ cs = <<>>
    \/ /\ Len(cs) >= 2
       /\ Lower(cs[1]) = "e"
       /\ LET i == IF cs[2] \in {"+", "-"} THEN 3 ELSE 2
          IN  i <= Len(cs) /\ DigitRun(cs, i) = Len(cs) - i + 1

ExponentOf(cs) ==
    IF cs = <<>> THEN 0
    ELSE IF cs[2] = "-" THEN -Natural(SubSeq(cs, 3, Len(cs)))
    ELSE IF cs[2] = "+" THEN Natural(SubSeq(cs, 3, Len(cs)))
    ELSE Natural(SubSeq(cs, 2, Len(cs)))

\* mant * 10^ex
Scaled(mant, ex) ==
    IF ex >= 0 THEN RMul(mant, R(10^ex)) ELSE RDiv(mant, R(10^(-ex)))

\* The unsigned text: ni digits, then a point and nf digits if dot.
Unsigned(body, ni, dot, nf) ==
    IF [i \in 1..Len(body) |-> Lower(body[i])]
          \in {<<"i", "n", "f">>, <<"i", "n", "f", "i", "n", "i", "t", "y">>}
    THEN Ok(<<1, 0>>)
    ELSE IF [i \in 1..Len(body) |-> Lower(body[i])] = <<"n", "a", "n">>
    THEN Ok(NaN)
    ELSE IF ni + nf = 0
            \/ ~IsExponent(SubSeq(body, ni + (IF dot THEN 1 + nf ELSE 0) + 1,
                                  Len(body)))
    THEN Raise("NumpyError")
    ELSE Ok(Scaled(
             Rat(Natural(SubSeq(body, 1, ni)) * 10^nf
                   + Natural(SubSeq(body, ni + 2, ni + 1 + nf)),
                 10^nf),
             ExponentOf(SubSeq(body, ni + (IF dot THEN 1 + nf ELSE 0) + 1,
                               Len(body)))))

UnsignedOf(body) ==
    Unsigned(body, DigitRun(body, 1),
             DigitRun(body, 1) < Len(body) /\ body[DigitRun(body, 1) + 1] = ".",
             IF DigitRun(body, 1) < Len(body)
                /\ body[DigitRun(body, 1) + 1] = "."
             THEN DigitRun(body, DigitRun(body, 1) + 2) ELSE 0)

\* The text without underscores and without the blanks around it: an
\* optional sign and the rest.
Stripped(cs) ==
    IF cs = <<>> THEN Raise("NumpyError")
    ELSE IF cs[1] = "+" THEN UnsignedOf(Tail(cs))
    ELSE IF cs[1] # "-" THEN UnsignedOf(cs)
    ELSE IF UnsignedOf(Tail(cs)).ok THEN Ok(RNeg(UnsignedOf(Tail(cs)).val))
    ELSE UnsignedOf(Tail(cs))

str_to_float(cs) ==
    IF \E i \in 1..Len(cs) :
          /\ cs[i] = "_"
          /\ \/ i = 1
             \/ i = Len(cs)
             \/ ~IsDigit(cs[i - 1])
             \/ ~IsDigit(cs[i + 1])
    THEN Raise("NumpyError")
    ELSE Stripped(RStrip(LStrip(SelectSeq(cs, LAMBDA c : c # "_"))))

(***************************************************************************)
(* Arrays.  Iterating an array goes over its first axis: the items of a    *)
(* 1-D array are its elements (numpy scalars: a float or an int is a       *)
(* Number, a str_ is a str), those of an n-D array are (n-1)-D arrays.     *)
(***************************************************************************)
\* The element x of an array of the given dtype, as a Python value.
Scalar(dtype, x) ==
    IF dtype = "float" THEN Num(x)
    ELSE IF dtype = "int" THEN IntNum(x[1])
    ELSE IF dtype = "str" THEN Str(x)
    ELSE x

\* list(a), a of one axis or more.
Items(a) ==
    IF Len(a.shape) = 1
    THEN [k \in 1..a.shape[1] |-> Scalar(a.s, a.e[k])]
    ELSE [k \in 1..a.shape[1] |->
            NdArray(a.s, Tail(a.shape),
                    SubSeq(a.e, (k - 1) * Prod(Tail(a.shape)) + 1,
                           k * Prod(Tail(a.shape))))]

\* A 0-d array has no len() and cannot be iterated.
Unsized(a) == a.shape = <<>>

\* The 1-based index tuple of the k-th element (k from 1) in row-major order.
RECURSIVE Unravel(_, _)
Unravel(k0, shape) ==
    IF shape = <<>> THEN <<>>
    ELSE LET rest == Prod(Tail(shape))
         IN  <<(k0 \div rest) + 1>> \o Unravel(k0 % rest, Tail(shape))

\* The position (from 1) in row-major order of the element at idx.
RECURSIVE Ravel(_, _)
Ravel(idx, shape) ==
    IF shape = <<>> THEN 1
    ELSE (Head(idx) - 1) * Prod(Tail(shape)) + Ravel(Tail(idx), Tail(shape))

(***************************************************************************)
(* np.array(list).  numpy takes the shape and the element type from what   *)
(* it is given: lists, tuples and arrays nest into axes as long as all the *)
(* members of a level have one shape, and a list whose members differ in   *)
(* shape is a ValueError.  Ints alone give an int array, numbers with a    *)
(* float among them (and the empty list) a float array, strs (with or      *)
(* without numbers, which are then written as text) a str array, and any   *)
(* other member (None) an object array.  A str array keeps no NUL at the   *)
(* end of an element.                                                      *)
(***************************************************************************)
Ragged == <<-1>>

RECURSIVE ShapeOf(_)
ShapeOf(v) ==
    IF v.t = "ndarray" THEN v.shape
    ELSE IF v.t \notin {"list", "tuple"} THEN <<>>
    ELSE IF v.e = <<>> THEN <<0>>
    ELSE IF \E i \in 1..Len(v.e) :
               ShapeOf(v.e[i]) = Ragged \/ ShapeOf(v.e[i]) # ShapeOf(v.e[1])
    THEN Ragged
    ELSE <<Len(v.e)>> \o ShapeOf(v.e[1])

\* The scalars of a value, in row-major order.
RECURSIVE Leaves(_)
Leaves(v) ==
    IF v.t = "ndarray"
    THEN [k \in 1..Len(v.e) |-> Scalar(v.s, v.e[k])]
    ELSE IF v.t \in {"list", "tuple"}
    THEN Concat([i \in 1..Len(v.e) |-> Leaves(v.e[i])])
    ELSE <<v>>

AllOf(es, tys) == \A i \in 1..Len(es) : es[i].t \in tys

\* The dtype found for these scalars, and the element each becomes.
Filled(shape, ls) ==
    IF AllOf(ls, {"number"})
    THEN NdArray(IF ls # <<>> /\ \A k \in 1..Len(ls) : ls[k].s = "int"
                 THEN "int" ELSE "float",
                 shape, [k \in 1..Len(ls) |-> ls[k].n])
    ELSE IF AllOf(ls, {"number", "str"})
    THEN NdArray("str", shape,
                 [k \in 1..Len(ls) |->
                    IF ls[k].t = "str"
                    THEN SubSeq(ls[k].e, 1,
                                CHOOSE n \in 0..Len(ls[k].e) :
                                    /\ n > 0 => Ord(ls[k].e[n]) # 0
                                    /\ \A i \in (n + 1)..Len(ls[k].e) :
                                          Ord(ls[k].e[i]) = 0)
                    ELSE IF ls[k].s = "int"
                    THEN (IF ls[k].n[1] < 0 THEN <<"-">> ELSE <<>>)
                         \o NatChars(Abs(ls[k].n[1]))
                    ELSE float_to_str(ls[k].n)])
    ELSE NdArray("object", shape, ls)

np_array(es) ==
    IF ShapeOf(List(es)) = Ragged THEN Raise("NumpyError")
    ELSE Ok(Filled(ShapeOf(List(es)), Leaves(List(es))))

\* _correct_arr with a truth test in place of the None test.
_correct_arr_falsy(var, default) ==
    LET v == IF var.t = "None" \/ (var.t = "number" /\ var.n = Zero)
                \/ (var.t = "list" /\ var.e = <<>>)
             THEN default ELSE var
    IN  IF v.t = "ndarray" THEN Ok(v)
        ELSE IF v.t = "list" THEN np_array(v.e)
        ELSE IF v.t = "number" THEN np_array(<<v>>)
        ELSE Raise("InvalidInput")

_correct_arr(var, default) ==
    LET v == IF var.t = "None" THEN default ELSE var
    IN  IF v.t = "ndarray" THEN Ok(v)
        ELSE IF v.t = "list" THEN np_array(v.e)
        ELSE IF v.t = "number" THEN np_array(<<v>>)
        ELSE Raise("InvalidInput")

(***************************************************************************)
(* Comparisons, as Python makes them on numbers, strs and arrays.  u < v   *)
(* of two arrays, or of an array and a scalar, is the array of the         *)
(* comparisons of their elements after broadcasting; its truth value       *)
(* exists only when it has exactly one element.                            *)
(***************************************************************************)
\* A Python value as an array: a scalar becomes a 0-d array.
AsArray(v) ==
    IF v.t = "ndarray" THEN v
    ELSE IF v.t = "number" THEN NdArray(v.s, <<>>, <<v.n>>)
    ELSE IF v.t = "str" THEN NdArray("str", <<>>, <<v.e>>)
    ELSE NdArray("object", <<>>, <<v>>)

\* u op v for two scalars, op "<" or ">".
ScalarCompare(op, u, v) ==
    IF u.t = "number" /\ v.t = "number"
    THEN Ok(IF op = "<" THEN RLt(u.n, v.n) ELSE RLt(v.n, u.n))
    ELSE IF u.t = "str" /\ v.t = "str"
    THEN Ok(IF op = "<" THEN StrLess(u.e, v.e) ELSE StrLess(v.e, u.e))
    ELSE Raise("TypeError")

\* A shape with axes of length 1 put in front until it has as many axes as
\* the other shape, if that has more.
Pad(shape, other) ==
    LET n == IF Len(shape) > Len(other) THEN Len(shape) ELSE Len(other)
    IN  [i \in 1..n |-> IF i <= n - Len(shape) THEN 1
                        ELSE shape[i - (n - Len(shape))]]

Broadcastable(s1, s2) ==
    \A i \in 1..Len(Pad(s1, s2)) :
        \/ Pad(s1, s2)[i] = Pad(s2, s1)[i]
        \/ Pad(s1, s2)[i] = 1
        \/ Pad(s2, s1)[i] = 1

BroadcastShape(s1, s2) ==
    [i \in 1..Len(Pad(s1, s2)) |->
        IF Pad(s1, s2)[i] = 1 THEN Pad(s2, s1)[i] ELSE Pad(s1, s2)[i]]

\* The position, in an array of shape s, of the element that cell idx of
\* the broadcast array reads.
Source(idx, s) ==
    Ravel([i \in 1..Len(s) |->
              IF s[i] = 1 THEN 1 ELSE idx[Len(idx) - Len(s) + i]], s)

\* The comparisons of the cells of two arrays of shapes that broadcast.
CompareCells(op, a, b, bs) ==
    [k \in 1..Prod(bs) |->
        ScalarCompare(op,
            Scalar(a.s, a.e[Source(Unravel(k - 1, bs), a.shape)]),
            Scalar(b.s, b.e[Source(Unravel(k - 1, bs), b.shape)]))]

Compared(bs, cells) ==
    IF \E k \in 1..Len(cells) : ~cells[k].ok THEN Raise("TypeError")
    ELSE Ok(NdArray("bool", bs, [k \in 1..Len(cells) |-> cells[k].val]))

CompareArrays(op, a, b) ==
    IF "str" \in {a.s, b.s} /\ {a.s, b.s} \cap {"int", "float"} # {}
    THEN Raise("TypeError")
    ELSE IF ~Broadcastable(a.shape, b.shape) THEN Raise("NumpyError")
    ELSE Compared(BroadcastShape(a.shape, b.shape),
                  CompareCells(op, a, b, BroadcastShape(a.shape, b.shape)))

\* bool(c), c the outcome of a comparison: the one element of an array
\* that has one; of an array with none, False or an error as numpy has it;
\* an error for an array with more.
Truth(c) ==
    IF ~c.ok THEN c
    ELSE IF Len(c.val.e) = 1 THEN Ok(c.val.e[1])
    ELSE IF Len(c.val.e) = 0 /\ numpy = "1.24" THEN Ok(FALSE)
    ELSE Raise("NumpyError")

\* if u op v
Holds(op, u, v) == Truth(CompareArrays(op, AsArray(u), AsArray(v)))

(***************************************************************************)
(* Python's builtin min and max over an array: the first item, then        *)
(* replaced by each later item that compares below (above) it.             *)
(***************************************************************************)
RECURSIVE Extreme(_, _, _, _)

\* One step of the scan: h is the outcome of "if item op best".
Scan(op, items, i, best, h) ==
    IF ~h.ok THEN h
    ELSE Extreme(op, items, i + 1, IF h.val THEN items[i] ELSE best)

Extreme(op, items, i, best) ==
    IF i > Len(items) THEN Ok(best)
    ELSE Scan(op, items, i, best, Holds(op, items[i], best))

ExtremeOf(op, a) ==
    IF Unsized(a) THEN Raise("TypeError")
    ELSE IF a.shape[1] = 0 THEN Raise("EmptySequence")
    ELSE Extreme(op, Items(a), 2, Items(a)[1])

PyMin(a) == ExtremeOf("<", a)
PyMax(a) == ExtremeOf(">", a)

(***************************************************************************)
(* The device table, as importdata leaves it: the four axes and, for each  *)
(* output variable, an interpolator over the raw array of shape            *)
(* (|L|, |VGS|, |VDS|, |VSB|).  data_dict holds the axes and the name of  *)
(* the file read (tbl); Raw is the array the file holds for a variable.    *)
(*                                                                         *)
(* Table A: GM_ID rises to a peak at the second VGS and falls; GM_CGG      *)
(* rises to a single peak at the fourth VGS and falls below its first      *)
(* value; ID_W rises.  Table B: GM_CGG and GM_ID have two peaks, ID has a  *)
(* plateau, and the VSB axis starts above 0.                               *)
(***************************************************************************)
ID == <<"I", "D">>
GM == <<"G", "M">>
CGG == <<"C", "G", "G">>
GM_ID == <<"G", "M", "_", "I", "D">>
GM_CGG == <<"G", "M", "_", "C", "G", "G">>
ID_W == <<"I", "D", "_", "W">>

_out_vars ==
    <<<<"W">>, ID, <<"V", "T">>, <<"I", "G", "D">>, <<"I", "G", "S">>, GM,
      <<"G", "M", "B">>, <<"G", "D", "S">>, CGG, <<"C", "G", "S">>,
      <<"C", "G", "D">>, <<"C", "D", "G">>, <<"C", "G", "B">>,
      <<"C", "D", "D">>, <<"C", "S", "S">>, <<"S", "T", "H">>,
      <<"S", "F", "L">>>>

_in_vars == <<<<"L">>, <<"V", "G", "S">>, <<"V", "D", "S">>, <<"V", "S", "B">>>>

\* x in s, s a Python list
In(x, s) == \E i \in 1..Len(s) : s[i] = x

Tables == {"A", "B"}

AxisL(tbl) == RSeq(<<2, 4>>)
AxisVGS(tbl) == RSeq(<<0, 1, 2, 3, 4, 5>>)
AxisVDS(tbl) == IF tbl = "A" THEN RSeq(<<0, 2, 6>>) ELSE RSeq(<<0, 4>>)
AxisVSB(tbl) == IF tbl = "A" THEN RSeq(<<0, 2>>) ELSE RSeq(<<1, 3>>)

IdBase(tbl) == IF tbl = "A" THEN <<1, 2, 4, 8, 16, 32>>
               ELSE <<1, 2, 4, 4, 16, 32>>
GmBase(tbl) == <<100, 240, 320, 480, 640, 640>>
CggBase(tbl) == IF tbl = "A" THEN <<50, 60, 40, 40, 80, 640>>
                ELSE <<50, 40, 80, 40, 80, 640>>

\* idx = <<il, ig, id, ib>>, the 1-based position on each axis; name one of
\* _out_vars.
Raw(tbl, name, idx) ==
    CASE name = ID ->
           IdBase(tbl)[idx[2]] * (3 - idx[1]) * (4 + idx[3] - idx[4])
      [] name = GM -> GmBase(tbl)[idx[2]]
      [] name = CGG -> CggBase(tbl)[idx[2]] * idx[1]
      [] name = <<"W">> -> 5
      [] OTHER -> 10 * idx[1] + idx[2] + idx[3] + idx[4]

importdata(tbl) ==
    [tbl |-> tbl, L |-> AxisL(tbl), VGS |-> AxisVGS(tbl),
     VDS |-> AxisVDS(tbl), VSB |-> AxisVSB(tbl)]

Grid(dd) == <<dd.L, dd.VGS, dd.VDS, dd.VSB>>

(***************************************************************************)
(* RegularGridInterpolator((l, vgs, vds, vsb), var), method linear,        *)
(* bounds_error True.  A call with an array of points raises when any      *)
(* coordinate of any point lies outside its axis; otherwise each point     *)
(* gets the multilinear blend of the 16 nodes around it.                   *)
(***************************************************************************)
InBounds(grid, c) == RLe(grid[1], c) /\ RLe(c, grid[Len(grid)])

PointInBounds(dd, p) == \A d \in 1..4 : InBounds(Grid(dd)[d], p[d])

\* The lower node of the cell used for c: searchsorted(grid, c) - 1,
\* clipped to 0 .. n - 2 (here 1-based).
FindIndex(grid, c) ==
    LET i0 == Cardinality({i \in 1..Len(grid) : RLt(grid[i], c)}) - 1
        cl == IF i0 < 0 THEN 0
              ELSE IF i0 > Len(grid) - 2 THEN Len(grid) - 2 ELSE i0
    IN  cl + 1

NormDistance(grid, c) ==
    LET i == FindIndex(grid, c)
    IN  RDiv(RSub(c, grid[i]), RSub(grid[i + 1], grid[i]))

\* The sum over the nodes of the cell of weight times value, one axis at a
\* time; a node of weight 0 adds nothing and is left out of the sum.
RECURSIVE Blend(_, _, _, _, _)
Blend(tbl, name, lo, w, idx) ==
    IF Len(idx) = 4 THEN R(Raw(tbl, name, idx))
    ELSE LET d == Len(idx) + 1
         IN  IF w[d] = Zero
             THEN Blend(tbl, name, lo, w, Append(idx, lo[d]))
             ELSE IF w[d] = R(1)
             THEN Blend(tbl, name, lo, w, Append(idx, lo[d] + 1))
             ELSE RAdd(RMul(RSub(R(1), w[d]),
                            Blend(tbl, name, lo, w, Append(idx, lo[d]))),
                       RMul(w[d],
                            Blend(tbl, name, lo, w, Append(idx, lo[d] + 1))))

EvalLinear(dd, name, p) ==
    Blend(dd.tbl, name,
          <<FindIndex(dd.L, p[1]), FindIndex(dd.VGS, p[2]),
            FindIndex(dd.VDS, p[3]), FindIndex(dd.VSB, p[4])>>,
          <<NormDistance(dd.L, p[1]), NormDistance(dd.VGS, p[2]),
            NormDistance(dd.VDS, p[3]), NormDistance(dd.VSB, p[4])>>,
          <<>>)

\* An interpolator that clamps a coordinate to its axis instead of raising.
Interpolate_clamp(dd, name, pts) ==
    LET cl(g, c) == IF RLt(c, g[1]) THEN g[1]
                    ELSE IF RLt(g[Len(g)], c) THEN g[Len(g)] ELSE c
    IN  IF ~In(name, _in_vars) /\ ~In(name, _out_vars) THEN Raise("KeyError")
        ELSE IF In(name, _in_vars) THEN Raise("TypeError")
        ELSE Ok([k \in 1..Len(pts) |->
                   EvalLinear(dd, name,
                              [d \in 1..4 |-> cl(Grid(dd)[d], pts[k][d])])])

\* data_dict[name](x), x the points in row-major order.  The keys of the
\* table are the four axes, which hold arrays, and the output variables,
\* which hold interpolators (the file read holds no other key): any other
\* name is a KeyError, the call of an axis array a TypeError.
Interpolate(dd, name, pts) ==
    IF ~In(name, _in_vars) /\ ~In(name, _out_vars) THEN Raise("KeyError")
    ELSE IF In(name, _in_vars) THEN Raise("TypeError")
    ELSE IF \E k \in 1..Len(pts) : ~PointInBounds(dd, pts[k])
    THEN Raise("OutOfDomain")
    ELSE Ok([k \in 1..Len(pts) |-> EvalLinear(dd, name, pts[k])])

(***************************************************************************)
(* Forward lookup                                                          *)
(***************************************************************************)
\* out_var.split('_'): the pieces between the underscores; a name without
\* "_" is its own single piece.
RECURSIVE SplitFrom(_, _, _)
SplitFrom(cs, piece, done) ==
    IF cs = <<>> THEN Append(done, piece)
    ELSE IF Head(cs) = "_" THEN SplitFrom(Tail(cs), <<>>, Append(done, piece))
    ELSE SplitFrom(Tail(cs), Append(piece, Head(cs)), done)

Split(out_var) == SplitFrom(out_var, <<>>, <<>>)

\* Lines 71-74: the four axes after defaulting, in the order they are
\* normalized.
DefaultedAxes(dd, vgs, vds, vsb, l) ==
    [l |-> _correct_arr(l, PyMin(Vec(dd.L)).val),
     vgs |-> _correct_arr(vgs, Vec(dd.VGS)),
     vds |-> _correct_arr(vds, Num(RDiv(PyMax(Vec(dd.VDS)).val.n, R(2)))),
     vsb |-> _correct_arr(vsb, IntNum(0))]

\* What a cell of the float array x takes from an item of an axis: a
\* number as it is, a text as float(text); None is a TypeError.
Coordinate(v) ==
    IF v.t = "number" THEN Ok(v.n)
    ELSE IF v.t = "str" THEN str_to_float(v.e)
    ELSE Raise("TypeError")

Coordinates(cs) ==
    IF \E d \in 1..Len(cs) : ~cs[d].ok THEN Raise(cs[FirstBad(cs)].err)
    ELSE Ok([d \in 1..Len(cs) |-> cs[d].val])

\* Lines 84-85 for one index tuple: np.array of the four items, stored in
\* the row of x.  An item that is itself an array (an axis of two or more
\* dimensions) gives a ragged list or a block that does not fit the row.
PointOf(vals) ==
    IF \E d \in 1..Len(vals) : vals[d].t \in {"ndarray", "list", "tuple"}
    THEN Raise("NumpyError")
    ELSE Coordinates([d \in 1..Len(vals) |-> Coordinate(vals[d])])

\* Lines 77-85 with vgs and vds written to each other's place in the point.
GridPoints_swapped(l, vgs, vds, vsb) ==
    LET shape == <<l.shape[1], vgs.shape[1], vds.shape[1], vsb.shape[1]>>
    IN  [k \in 1..Prod(shape) |->
            LET i == Unravel(k - 1, shape)
            IN  PointOf(<<Items(l)[i[1]], Items(vds)[i[3]],
                          Items(vgs)[i[2]], Items(vsb)[i[4]]>>)]

\* Lines 77-85: x[l_idx, vgs_idx, vds_idx, vsb_idx] = (l, vgs, vds, vsb),
\* listed in row-major order, each with the outcome of its assignment.
GridPoints(l, vgs, vds, vsb) ==
    LET shape == <<l.shape[1], vgs.shape[1], vds.shape[1], vsb.shape[1]>>
    IN  [k \in 1..Prod(shape) |->
            LET i == Unravel(k - 1, shape)
            IN  PointOf(<<Items(l)[i[1]], Items(vgs)[i[2]],
                          Items(vds)[i[3]], Items(vsb)[i[4]]>>)]

\* Lines 90-92, once both interpolators have been called.
Quotient(shape, num, den) ==
    IF ~num.ok THEN num
    ELSE IF ~den.ok THEN den
    ELSE Ok(NdArray("float", shape,
                    [k \in 1..Len(num.val) |-> RDiv(num.val[k], den.val[k])]))

\* Line 94, once the interpolator has been called.
Single(shape, r) == IF ~r.ok THEN r ELSE Ok(NdArray("float", shape, r.val))

\* Lines 88-94: the quantity, or the ratio of two quantities, at the points x.
Evaluate(dd, out_vars, shape, x) ==
    IF Len(out_vars) > 1
    THEN Quotient(shape, Interpolate(dd, out_vars[1], x),
                  Interpolate(dd, out_vars[2], x))
    ELSE Single(shape, Interpolate(dd, out_vars[1], x))

\* Lines 80-94, pts the outcomes of the assignments of lines 84-85 in the
\* order they are made: the first that raises ends the function.
LookUpAt(dd, out_var, shape, pts) ==
    IF \E k \in 1..Len(pts) : ~pts[k].ok THEN Raise(pts[FirstBad(pts)].err)
    ELSE Evaluate(dd, Split(out_var), shape,
                  [k \in 1..Len(pts) |-> pts[k].val])

\* Lines 76-94, on the four normalized axes.
LookUpOnAxes(dd, out_var, l, vgs, vds, vsb) ==
    IF Unsized(l) \/ Unsized(vgs) \/ Unsized(vds) \/ Unsized(vsb)
    THEN Raise("IndexError")
    ELSE LookUpAt(dd, out_var,
                  <<l.shape[1], vgs.shape[1], vds.shape[1], vsb.shape[1]>>,
                  GridPoints(l, vgs, vds, vsb))

\* Lines 71-94, given the outcome of lines 71-74.
LookUpWith(dd, out_var, ax) ==
    IF ~ax.l.ok THEN ax.l
    ELSE IF ~ax.vgs.ok THEN ax.vgs
    ELSE IF ~ax.vds.ok THEN ax.vds
    ELSE IF ~ax.vsb.ok THEN ax.vsb
    ELSE LookUpOnAxes(dd, out_var, ax.l.val, ax.vgs.val, ax.vds.val,
                      ax.vsb.val)

_look_up_basic(dd, out_var, vgs, vds, vsb, l) ==
    LookUpWith(dd, out_var, DefaultedAxes(dd, vgs, vds, vsb, l))

\* A squeeze that drops only the trailing axes of length 1.
RECURSIVE DropTrailingOnes(_)
DropTrailingOnes(shape) ==
    IF shape # <<>> /\ shape[Len(shape)] = 1
    THEN DropTrailingOnes(SubSeq(shape, 1, Len(shape) - 1))
    ELSE shape

squeeze_trailing(a) == NdArray(a.s, DropTrailingOnes(a.shape), a.e)

\* np.squeeze: every axis of length 1 goes, the elements keep their order.
squeeze(a) == NdArray(a.s, SelectSeq(a.shape, LAMBDA n : n # 1), a.e)

\* np.squeeze applied to what a function gave, an error passing through.
Squeezed(r) == IF r.ok THEN Ok(squeeze(r.val)) ELSE r

look_up_basic(dd, out_var, vgs, vds, vsb, l) ==
    Squeezed(_look_up_basic(dd, out_var, vgs, vds, vsb, l))

(***************************************************************************)
(* interp1d(x, y, kind='cubic').  The constructor sorts the points by x    *)
(* (a stable sort, a nan after every number) and refuses fewer than four   *)
(* points and repeated x; a call refuses an object array, reads a str      *)
(* array as numbers, and refuses a new x outside [x[0], x[-1]] of the      *)
(* sorted points (bounds_error).  The value at t of the spline through the *)
(* points <<xs[i], ys[i]>> is kept as the term                             *)
(* [at |-> t, xs |-> xs, ys |-> ys].  With a nan among the x the spline is *)
(* laid through as many points spread evenly from the least x to the       *)
(* greatest, which must differ, and every value of it is nan; so it is     *)
(* with a nan among the y.  A new x that is nan is outside no range, and   *)
(* the value there is nan.                                                 *)
(***************************************************************************)
CubicOrder == 3

\* The place of x[i] after np.argsort(x, kind="mergesort").
Rank(x, i) ==
    1 + Cardinality({j \in 1..Len(x) :
                        \/ RLt(x[j], x[i])
                        \/ IsNaN(x[i]) /\ ~IsNaN(x[j])
                        \/ /\ j < i
                           /\ ~RLt(x[i], x[j])
                           /\ IsNaN(x[i]) \/ ~IsNaN(x[j])})

SortedBy(x, y) ==
    [r \in 1..Len(x) |-> y[CHOOSE i \in 1..Len(x) : Rank(x, i) = r]]

\* x and y the elements of two 1-D float arrays.
interp1d(x, y) ==
    IF \/ Len(x) # Len(y)
       \/ Len(x) < CubicOrder + 1
       \/ IF \E i \in 1..Len(x) : IsNaN(x[i])
          THEN \A i, j \in 1..Len(x) :
                  IsNaN(x[i]) \/ IsNaN(x[j]) \/ x[i] = x[j]
          ELSE \E i, j \in 1..Len(x) : i < j /\ x[i] = x[j]
    THEN Raise("Interp1d")
    ELSE Ok([xs |-> SortedBy(x, x), ys |-> SortedBy(x, y)])

Cubic(f, t) == [at |-> t, xs |-> f.xs, ys |-> f.ys]

\* np.zeros: the cell of an output array nothing was written to.
ZeroCell == [at |-> Zero, xs |-> <<>>, ys |-> <<>>]

\* The new x as floats: the elements of a float array, float(text) of
\* each element of a str array.
AsFloats(x_new) ==
    IF x_new.s = "str"
    THEN Coordinates([k \in 1..Len(x_new.e) |-> str_to_float(x_new.e[k])])
    ELSE Ok(x_new.e)

Evaluated(f, shape, ts) ==
    IF ~ts.ok THEN ts
    ELSE IF \E k \in 1..Len(ts.val) :
              RLt(ts.val[k], f.xs[1]) \/ RLt(f.xs[Len(f.xs)], ts.val[k])
    THEN Raise("Interp1d")
    ELSE Ok(NdArray("float", shape,
                    [k \in 1..Len(ts.val) |-> Cubic(f, ts.val[k])]))

\* interp_func(x_new), x_new an array; the result has the shape of x_new.
interp_call(f, x_new) ==
    IF x_new.s = "object" THEN Raise("Interp1d")
    ELSE Evaluated(f, x_new.shape, AsFloats(x_new))

(***************************************************************************)
(* Ratio inversion at a fixed (l, vds, vsb): _look_up_vs_ratio.  What it   *)
(* gives back is kept together with the trace of the call: x_calc and      *)
(* y_calc as looked up, the segment handed to interp1d (x_seg, y_seg) and  *)
(* the statements reached (steps).                                         *)
(***************************************************************************)
\* np.argmax: the first position of a nan if there is one, of the largest
\* element if not.
ArgMax(s) ==
    IF \E i \in 1..Len(s) : IsNaN(s[i])
    THEN CHOOSE i \in 1..Len(s) :
            IsNaN(s[i]) /\ \A j \in 1..(i - 1) : ~IsNaN(s[j])
    ELSE CHOOSE i \in 1..Len(s) :
            /\ \A j \in 1..Len(s) : ~RLt(s[i], s[j])
            /\ \A j \in 1..(i - 1) : RLt(s[j], s[i])

Frame(r, x_calc, y_calc, x_seg, y_seg, steps) ==
    [ok |-> r.ok, err |-> r.err, val |-> r.val, x_calc |-> x_calc,
     y_calc |-> y_calc, x_seg |-> x_seg, y_seg |-> y_seg, steps |-> steps]

\* Lines 117-120: s[max_idx:], max_idx counted from 1 here.
RestrictRight(x, s, lim_right) ==
    IF lim_right THEN SubSeq(s, ArgMax(x), Len(s)) ELSE s

\* Lines 113-120 with the two flags taken for each other.
Restrict_swapped(x, s, lim_left, lim_right) ==
    IF lim_left THEN SubSeq(s, ArgMax(x), Len(s))
    ELSE IF lim_right THEN SubSeq(s, 1, ArgMax(x))
    ELSE s

\* Lines 113-120: what the two flags keep of s, a curve over the VGS axis,
\* given the x curve; s[:max_idx+1] first, max_idx counted from 1 here.
Restrict(x, s, lim_left, lim_right) ==
    IF lim_left
    THEN RestrictRight(SubSeq(x, 1, ArgMax(x)), SubSeq(s, 1, ArgMax(x)),
                       lim_right)
    ELSE RestrictRight(x, s, lim_right)

\* min(a) < min(b) for op "<", max(a) > max(b) for op ">", evaluated from
\* left to right.
Beyond(op, ea, eb) ==
    IF ~ea.ok THEN ea
    ELSE IF ~eb.ok THEN eb
    ELSE Holds(op, ea.val, eb.val)

Below(x_desired, x_calc) == Beyond("<", PyMin(x_desired), PyMin(x_calc))
Above(x_desired, x_calc) == Beyond(">", PyMax(x_desired), PyMax(x_calc))

\* The condition of line 109 once its first test has given lo: the test of
\* the upper end is made only when the first is false.
OrAbove(lo, x_desired, x_calc) ==
    IF ~lo.ok \/ lo.val THEN lo ELSE Above(x_desired, x_calc)

\* Line 109: the condition of the if, or the error its evaluation raises.
Unachievable(x_desired, x_calc) ==
    OrAbove(Below(x_desired, x_calc), x_desired, x_calc)

RestrictSteps(lim_left, lim_right) ==
    (IF lim_left THEN <<"restrict_left">> ELSE <<>>)
    \o (IF lim_right THEN <<"restrict_right">> ELSE <<>>)

\* Lines 121-122 on the segment kept.
Interpolated(f, xd, x_calc, y_calc, x_seg, y_seg, st) ==
    IF ~f.ok THEN Frame(f, x_calc, y_calc, x_seg, y_seg, st)
    ELSE Frame(interp_call(f.val, xd), x_calc, y_calc, x_seg, y_seg,
               st \o <<"evaluate">>)

\* Lines 112-122.
InvertOnSegment(xd, x_calc, y_calc, x_seg, y_seg, st) ==
    Interpolated(interp1d(x_seg, y_seg), xd, x_calc, y_calc, x_seg, y_seg,
                 st \o <<"interp1d">>)

\* Lines 109-122, given the outcome of the condition of line 109.  When the
\* condition could be evaluated, x_calc is a 1-D array: min() of a 0-d
\* array and the comparison of two rows raise.
InvertChecked(chk, xd, x_calc, y_calc, lim_left, lim_right) ==
    IF ~chk.ok
    THEN Frame(chk, x_calc.e, y_calc.e, <<>>, <<>>,
               <<"normalize", "x_calc", "y_calc", "check">>)
    ELSE IF chk.val
    THEN Frame(Raise("Unachievable"), x_calc.e, y_calc.e, <<>>, <<>>,
               <<"normalize", "x_calc", "y_calc", "check">>)
    ELSE InvertOnSegment(xd, x_calc.e, y_calc.e,
                         Restrict(x_calc.e, x_calc.e, lim_left, lim_right),
                         Restrict(x_calc.e, y_calc.e, lim_left, lim_right),
                         <<"normalize", "x_calc", "y_calc", "check">>
                         \o RestrictSteps(lim_left, lim_right))

\* Lines 108-122, on the two curves.
InvertCurves(xd, x_calc, y_calc, lim_left, lim_right) ==
    InvertChecked(Unachievable(xd, x_calc), xd, x_calc, y_calc, lim_left,
                  lim_right)

\* Lines 104-122, given the outcomes of lines 104, 106 and 107.
InvertWith(xd, xc, yc, lim_left, lim_right) ==
    IF ~xd.ok THEN Frame(xd, <<>>, <<>>, <<>>, <<>>, <<"normalize">>)
    ELSE IF ~xc.ok
    THEN Frame(xc, <<>>, <<>>, <<>>, <<>>, <<"normalize", "x_calc">>)
    ELSE IF ~yc.ok
    THEN Frame(yc, xc.val.e, <<>>, <<>>, <<>>,
               <<"normalize", "x_calc", "y_calc">>)
    ELSE InvertCurves(xd.val, xc.val, yc.val, lim_left, lim_right)

_look_up_vs_ratio(dd, yvar, x_name, x_desired, vgs, vds, vsb, l, lim_left, lim_right) ==
    InvertWith(_correct_arr(x_desired, None),
               look_up_basic(dd, x_name, vgs, vds, vsb, l),
               look_up_basic(dd, yvar, vgs, vds, vsb, l),
               lim_left, lim_right)

(***************************************************************************)
(* The calls made to the module.  One call is in progress at a time (the   *)
(* module is synchronous): pc is "idle" between calls, "loop" inside the   *)
(* sweep of a swept entry point, "done" when the call has returned and     *)
(* "error" when it has raised.  fn and args are the function called and    *)
(* its arguments, loc its local variables, calls the point inversions it   *)
(* has made so far, result what the caller gets.                           *)
(***************************************************************************)
MaxSweep == 2
MaxTargets == 2

SweepL == <<4, 2, 3, 4>>
SweepVGS == <<5, 0, 2, 3>>
SweepVDS == <<0, 2, 4, 0>>
SweepVSB == <<2, 0, 1, 2>>
SweepTargets == <<8, 20, 4, 10>>

\* The lists of 2 .. n values taken from the front of s.
Sweeps(s, n) == [k \in 1..(n - 1) |-> NumList(SubSeq(s, 1, k + 1))]

ArgsL == <<None, IntNum(3), Num(R(5)), List(<<Str(<<"2">>)>>),
           List(<<NumList(<<2, 4>>)>>)>>
         \o Sweeps(SweepL, MaxSweep)
ArgsVGS == <<None, IntNum(1), Num(R(7))>> \o Sweeps(SweepVGS, MaxSweep)
ArgsVDS == <<None, Num(R(0))>> \o Sweeps(SweepVDS, MaxSweep)
ArgsVSB == <<None, Num(R(2))>> \o Sweeps(SweepVSB, MaxSweep)
ArgsTargets == <<IntNum(4), Num(R(40)), Num(Rat(21, 2)), None,
                 List(<<NumList(<<8, 20>>)>>), List(<<NumList(<<>>)>>)>>
               \o Sweeps(SweepTargets, MaxTargets)
PointTargets == <<IntNum(5), Num(R(30)), Num(R(1)), Num(R(12)), Num(R(40)),
                  Num(Rat(1, 2)), Vec(RSeq(<<6, 10>>)), NumList(<<>>),
                  List(<<NumList(<<5>>)>>), List(<<Str(<<"5">>)>>),
                  List(<<NumList(<<>>)>>), Num(NaN),
                  List(<<Num(NaN), Num(Rat(1, 2))>>),
                  List(<<Num(Rat(1, 2)), Num(NaN)>>)>>
                \o Sweeps(SweepTargets, MaxTargets)
PointL == <<None, Num(R(4))>>
PointVDS == <<None, Num(R(0))>>
PointVSB == <<None, Num(R(2))>>
ArgsVar == <<None, IntNum(3), Num(R(0)), NumList(<<1, 2>>), NumList(<<>>),
             Vec(RSeq(<<2, 1>>)), NdArray("float", <<2, 1>>, RSeq(<<1, 2>>)),
             Str(<<"0", ".", "5">>), Tuple(<<Num(R(1)), Num(R(2))>>),
             List(<<NumList(<<1, 2>>), NumList(<<3, 4>>)>>),
             List(<<Str(<<"a">>), Str(<<"b">>)>>),
             List(<<Num(Rat(21, 2)), Str(<<"a">>)>>),
             List(<<NumList(<<1, 2>>), NumList(<<3>>)>>),
             List(<<Tuple(<<Num(R(1)), Num(R(2))>>),
                    Tuple(<<Num(R(3)), Num(R(4))>>)>>),
             List(<<Num(R(1)), None>>)>>
ArgsDefault == <<None, IntNum(7), Vec(RSeq(<<0, 1>>))>>
OutVars == <<ID, GM_ID, CGG \o <<"_">> \o GM, <<"F", "O", "O">>,
             <<"V", "G", "S">>>>
YVars == <<ID>>
XNames == <<GM_ID, GM_CGG, ID_W>>
RatioFns == {"look_up_vs_gm_id", "look_up_vs_gm_cgg", "look_up_vs_id_w"}
SweptFns == RatioFns \cup {"look_up_vgs_vs_gm_id"}

NoArgs ==
    [var |-> None, default |-> None, out_var |-> <<>>, x_name |-> <<>>,
     x_desired |-> None, vgs |-> None, vds |-> None, vsb |-> None,
     l |-> None, lim_left |-> FALSE, lim_right |-> FALSE]

NoLoc ==
    [l |-> None, vgs |-> None, vds |-> None, vsb |-> None,
     x_desired |-> None, raw |-> None, out |-> None, pos |-> <<0, 0, 0>>]

NoResult == [kind |-> "none", err |-> "", val |-> None]

\* What the caller gets from a function that gave r.
Returned(r) ==
    IF r.ok THEN [kind |-> "value", err |-> "", val |-> r.val]
    ELSE [kind |-> "error", err |-> r.err, val |-> None]

Init ==
    /\ numpy \in {"1.24", "2.2"}
    /\ data_dict \in {importdata(tbl) : tbl \in Tables}
    /\ pc = "idle"
    /\ fn = ""
    /\ args = NoArgs
    /\ loc = NoLoc
    /\ calls = <<>>
    /\ result = NoResult

\* _correct_arr(var, default)
CallCorrectArr ==
    /\ pc = "idle"
    /\ \E i \in 1..Len(ArgsVar), j \in 1..Len(ArgsDefault) :
          LET r == _correct_arr(ArgsVar[i], ArgsDefault[j])
          IN  /\ fn' = "_correct_arr"
              /\ args' = [NoArgs EXCEPT !.var = ArgsVar[i],
                                        !.default = ArgsDefault[j]]
              /\ result' = Returned(r)
              /\ pc' = IF r.ok THEN "done" ELSE "error"
    /\ UNCHANGED <<numpy, data_dict, loc, calls>>

\* The return of look_up_basic: ax the normalized axes, raw what
\* _look_up_basic gave.
ReturnLookUpBasic(a, ax, raw) ==
    /\ fn' = "look_up_basic"
    /\ args' = a
    /\ loc' = [NoLoc EXCEPT !.l = ax.l.val, !.vgs = ax.vgs.val,
                            !.vds = ax.vds.val, !.vsb = ax.vsb.val,
                            !.raw = raw.val]
    /\ result' = Returned(Squeezed(raw))
    /\ pc' = IF raw.ok THEN "done" ELSE "error"

LookUpBasicWith(a, ax) ==
    ReturnLookUpBasic(a, ax, LookUpWith(data_dict, a.out_var, ax))

\* look_up_basic(data_dict, out_var, vgs, vds, vsb, l)
CallLookUpBasic ==
    /\ pc = "idle"
    /\ \E o \in 1..Len(OutVars), g \in 1..Len(ArgsVGS), d \in 1..Len(ArgsVDS),
          b \in 1..Len(ArgsVSB), i \in 1..Len(ArgsL) :
          LookUpBasicWith(
              [NoArgs EXCEPT !.out_var = OutVars[o], !.vgs = ArgsVGS[g],
                             !.vds = ArgsVDS[d], !.vsb = ArgsVSB[b],
                             !.l = ArgsL[i]],
              DefaultedAxes(data_dict, ArgsVGS[g], ArgsVDS[d], ArgsVSB[b],
                            ArgsL[i]))
    /\ UNCHANGED <<numpy, data_dict, calls>>

\* One evaluation of the inversion, as the log of calls keeps it.
Invocation(pos, a, frame) ==
    [pos |-> pos, yvar |-> a.out_var, x_name |-> a.x_name,
     x_desired |-> a.x_desired, vgs |-> a.vgs, vds |-> a.vds, vsb |-> a.vsb,
     l |-> a.l, lim_left |-> a.lim_left, lim_right |-> a.lim_right,
     frame |-> frame]

ReturnLookUpVsRatio(a, f) ==
    /\ fn' = "_look_up_vs_ratio"
    /\ args' = a
    /\ calls' = <<Invocation(<<1, 1, 1>>, a, f)>>
    /\ result' = Returned(f)
    /\ pc' = IF f.ok THEN "done" ELSE "error"

LookUpVsRatioWith(a) ==
    ReturnLookUpVsRatio(a, _look_up_vs_ratio(data_dict, a.out_var, a.x_name,
                                             a.x_desired, a.vgs, a.vds,
                                             a.vsb, a.l, a.lim_left,
                                             a.lim_right))

\* _look_up_vs_ratio(data_dict, yvar, x_name, x_desired, vgs, vds, vsb, l,
\* lim_left, lim_right) at one point, over the full VGS axis.
CallLookUpVsRatio ==
    /\ pc = "idle"
    /\ \E y \in 1..Len(YVars), x \in 1..Len(XNames),
          t \in 1..Len(PointTargets), d \in 1..Len(PointVDS),
          b \in 1..Len(PointVSB), i \in 1..Len(PointL),
          ll \in BOOLEAN, lr \in BOOLEAN :
          LookUpVsRatioWith(
              [NoArgs EXCEPT !.out_var = YVars[y], !.x_name = XNames[x],
                             !.x_desired = PointTargets[t],
                             !.vds = PointVDS[d], !.vsb = PointVSB[b],
                             !.l = PointL[i], !.lim_left = ll,
                             !.lim_right = lr])
    /\ UNCHANGED <<numpy, data_dict, loc>>

(***************************************************************************)
(* The swept entry points.  CallSwept is the prologue (lines 128-135 and   *)
(* 164-171): the axes and the targets are normalized and the output array  *)
(* is allocated.  Each SweepStep or SolveStep is one pass of the innermost *)
(* loop body, at loc.pos = <<l_idx, vds_idx, vsb_idx>> (from 1); an error  *)
(* raised there leaves the function.  SweptReturn is the return statement. *)
(***************************************************************************)
XNameOf(f) ==
    CASE f = "look_up_vs_gm_id" -> GM_ID
      [] f = "look_up_vs_gm_cgg" -> GM_CGG
      [] f = "look_up_vs_id_w" -> ID_W
      [] OTHER -> GM_ID

LimLeftOf(f) == f = "look_up_vs_gm_cgg"
LimRightOf(f) == f = "look_up_vs_gm_id"

SweepEnd == <<0, 0, 0>>

\* The first pass of the three nested loops over arrays of these lengths.
FirstPos(nl, nvds, nvsb) ==
    IF nl = 0 \/ nvds = 0 \/ nvsb = 0 THEN SweepEnd ELSE <<1, 1, 1>>

\* Loops that step the three indices together.
NextPos_zip(pos, nl, nvds, nvsb) ==
    IF pos[1] < nl /\ pos[2] < nvds /\ pos[3] < nvsb
    THEN <<pos[1] + 1, pos[2] + 1, pos[3] + 1>>
    ELSE SweepEnd

\* The pass after pos: vsb runs fastest, then vds, then l.
NextPos(pos, nl, nvds, nvsb) ==
    IF pos[3] < nvsb THEN <<pos[1], pos[2], pos[3] + 1>>
    ELSE IF pos[2] < nvds THEN <<pos[1], pos[2] + 1, 1>>
    ELSE IF pos[1] < nl THEN <<pos[1] + 1, 1, 1>>
    ELSE SweepEnd

\* np.zeros(shape)
zeros(shape) == NdArray("float", shape, [k \in 1..Prod(shape) |-> ZeroCell])

\* A shape without its leading axes of length 1.
RECURSIVE StripOnes(_)
StripOnes(shape) ==
    IF shape # <<>> /\ Head(shape) = 1 THEN StripOnes(Tail(shape)) ELSE shape

\* Whether an array of this shape can be assigned to a row of n cells: it
\* must broadcast to the shape (n,).
FitsRow(shape, n) == StripOnes(shape) = <<>> \/ StripOnes(shape) = <<n>>

\* out[l_idx, vds_idx, vsb_idx, :] = row, the elements of an array that
\* fits; a single element fills the row.
SetRow(out, pos, row) ==
    LET nt == out.shape[4]
        base == Ravel(pos \o <<1>>, out.shape)
    IN  [out EXCEPT !.e = [k \in 1..Len(out.e) |->
                              IF k >= base /\ k < base + nt
                              THEN (IF Len(row) = 1 THEN row[1]
                                    ELSE row[k - base + 1])
                              ELSE out.e[k]]]

\* Lines 135 and 171, and the first pass of the loops.
EnterLoop(l, vds, vsb, xd) ==
    /\ loc' = [NoLoc EXCEPT
                 !.l = l, !.vds = vds, !.vsb = vsb, !.x_desired = xd,
                 !.vgs = Vec(data_dict.VGS),
                 !.out = zeros(<<l.shape[1], vds.shape[1], vsb.shape[1],
                                 xd.shape[1]>>),
                 !.pos = FirstPos(l.shape[1], vds.shape[1], vsb.shape[1])]
    /\ pc' = "loop"
    /\ result' = NoResult

RaiseInPrologue(bad) ==
    /\ loc' = NoLoc
    /\ pc' = "error"
    /\ result' = Returned(bad)

\* Lines 128-135 and 164-171, given the outcomes of the four
\* normalizations; len() of a 0-d array is a TypeError.
Prologue(f, a, ax, xd) ==
    /\ fn' = f
    /\ args' = a
    /\ IF ~ax.l.ok THEN RaiseInPrologue(ax.l)
       ELSE IF ~ax.vds.ok THEN RaiseInPrologue(ax.vds)
       ELSE IF ~ax.vsb.ok THEN RaiseInPrologue(ax.vsb)
       ELSE IF ~xd.ok THEN RaiseInPrologue(xd)
       ELSE IF Unsized(ax.l.val) \/ Unsized(ax.vds.val)
               \/ Unsized(ax.vsb.val) \/ Unsized(xd.val)
       THEN RaiseInPrologue(Raise("TypeError"))
       ELSE EnterLoop(ax.l.val, ax.vds.val, ax.vsb.val, xd.val)

CallSwept ==
    /\ pc = "idle"
    /\ \E f \in SweptFns, y \in 1..Len(YVars), t \in 1..Len(ArgsTargets),
          g \in 1..2, d \in 1..Len(ArgsVDS), b \in 1..Len(ArgsVSB),
          i \in 1..Len(ArgsL) :
          /\ f = "look_up_vgs_vs_gm_id" => g = 1
          /\ Prologue(f,
                 [NoArgs EXCEPT
                    !.out_var = IF f \in RatioFns THEN YVars[y] ELSE <<>>,
                    !.x_name = XNameOf(f),
                    !.x_desired = ArgsTargets[t], !.vgs = ArgsVGS[g],
                    !.vds = ArgsVDS[d], !.vsb = ArgsVSB[b],
                    !.l = ArgsL[i], !.lim_left = LimLeftOf(f),
                    !.lim_right = LimRightOf(f)],
                 DefaultedAxes(data_dict, None, ArgsVDS[d], ArgsVSB[b],
                               ArgsL[i]),
                 _correct_arr(ArgsTargets[t], ArgsTargets[t]))
    /\ calls' = <<>>
    /\ UNCHANGED <<numpy, data_dict>>

\* The arguments of the evaluation at loc.pos: the items of the three
\* axes the loops have reached.
PointArgs ==
    [args EXCEPT !.x_desired = loc.x_desired, !.vgs = loc.vgs,
                 !.vds = Items(loc.vds)[loc.pos[2]],
                 !.vsb = Items(loc.vsb)[loc.pos[3]],
                 !.l = Items(loc.l)[loc.pos[1]]]

\* What the pass gives once its row is assigned: the row must fit.
Stored(frame, n) ==
    IF frame.ok /\ ~FitsRow(frame.val.shape, n) THEN Raise("NumpyError")
    ELSE frame

\* A loop body that skips a point whose evaluation raised.
Advance_skip(a, frame) ==
    /\ calls' = Append(calls, Invocation(loc.pos, a, frame))
    /\ loc' = [loc EXCEPT
                 !.out = IF Stored(frame, loc.out.shape[4]).ok
                         THEN SetRow(loc.out, loc.pos, frame.val.e)
                         ELSE loc.out,
                 !.pos = NextPos(loc.pos, loc.l.shape[1], loc.vds.shape[1],
                                 loc.vsb.shape[1])]
    /\ UNCHANGED <<pc, result>>

\* The end of one pass: the row is stored and the loop goes on, or the
\* error leaves the function.
Advance(a, frame) ==
    /\ calls' = Append(calls, Invocation(loc.pos, a, frame))
    /\ IF Stored(frame, loc.out.shape[4]).ok
       THEN /\ loc' = [loc EXCEPT
                         !.out = SetRow(loc.out, loc.pos, frame.val.e),
                         !.pos = NextPos(loc.pos, loc.l.shape[1],
                                         loc.vds.shape[1], loc.vsb.shape[1])]
            /\ UNCHANGED <<pc, result>>
       ELSE /\ pc' = "error"
            /\ result' = Returned(Stored(frame, loc.out.shape[4]))
            /\ UNCHANGED loc

InvertAt(a) ==
    Advance(a, _look_up_vs_ratio(data_dict, a.out_var, a.x_name, a.x_desired,
                                 a.vgs, a.vds, a.vsb, a.l, a.lim_left,
                                 a.lim_right))

\* Lines 139-140.
SweepStep ==
    /\ pc = "loop"
    /\ fn \in RatioFns
    /\ loc.pos # SweepEnd
    /\ InvertAt(PointArgs)
    /\ UNCHANGED <<numpy, data_dict, fn, args>>

\* Lines 176-177, on the curve looked up: interp1d wants a 1-D x.
SolveOnCurve(gm_id_calc, vgs, gm_id) ==
    IF Len(gm_id_calc.shape) # 1
    THEN Frame(Raise("Interp1d"), gm_id_calc.e, vgs.e, <<>>, <<>>,
               <<"x_calc", "interp1d">>)
    ELSE Interpolated(interp1d(gm_id_calc.e, vgs.e), gm_id, gm_id_calc.e,
                      vgs.e, gm_id_calc.e, vgs.e, <<"x_calc", "interp1d">>)

\* Lines 175-177, given the outcome of line 175.
SolveWith(gc, vgs, gm_id) ==
    IF ~gc.ok THEN Frame(gc, <<>>, <<>>, <<>>, <<>>, <<"x_calc">>)
    ELSE SolveOnCurve(gc.val, vgs, gm_id)

\* Lines 175-177: the body of the VGS solver's loop.
SolveBody(dd, gm_id, vgs, vds, vsb, l) ==
    SolveWith(look_up_basic(dd, GM_ID, vgs, vds, vsb, l), vgs, gm_id)

SolveAt(a) ==
    Advance(a, SolveBody(data_dict, a.x_desired, a.vgs, a.vds, a.vsb, a.l))

SolveStep ==
    /\ pc = "loop"
    /\ fn = "look_up_vgs_vs_gm_id"
    /\ loc.pos # SweepEnd
    /\ SolveAt(PointArgs)
    /\ UNCHANGED <<numpy, data_dict, fn, args>>

\* Lines 141 and 178: return np.squeeze(out).
SweptReturn ==
    /\ pc = "loop"
    /\ loc.pos = SweepEnd
    /\ result' = Returned(Ok(squeeze(loc.out)))
    /\ pc' = "done"
    /\ UNCHANGED <<numpy, data_dict, fn, args, loc, calls>>

\* The caller takes the result; the module keeps nothing of the call.
Return ==
    /\ pc \in {"done", "error"}
    /\ pc' = "idle"
    /\ fn' = ""
    /\ args' = NoArgs
    /\ loc' = NoLoc
    /\ calls' = <<>>
    /\ result' = NoResult
    /\ UNCHANGED <<numpy, data_dict>>

Next ==
    \/ CallCorrectArr
    \/ CallLookUpBasic
    \/ CallLookUpVsRatio
    \/ CallSwept
    \/ SweepStep
    \/ SolveStep
    \/ SweptReturn
    \/ Return

Spec == Init /\ [][Next]_vars

(***************************************************************************)
(* Properties.  The definitions below read the state as mathematics does:  *)
(* the least and greatest element of a curve, the values a caller wrote    *)
(* into an argument, the index sets of an array.                           *)
(***************************************************************************)
Least(s) == CHOOSE m \in {s[i] : i \in 1..Len(s)} :
                \A i \in 1..Len(s) : RLe(m, s[i])
Greatest(s) == CHOOSE m \in {s[i] : i \in 1..Len(s)} :
                   \A i \in 1..Len(s) : RLe(s[i], m)

\* A 1-D array of numbers.
IsVector(v) ==
    v.t = "ndarray" /\ v.s \in {"int", "float"} /\ Len(v.shape) = 1

IsNumberList(v) == v.t = "list" /\ \A i \in 1..Len(v.e) : v.e[i].t = "number"

\* An argument given as a number, a list of numbers or a 1-D array of
\* numbers.
IsNumeric(v) == v.t = "number" \/ IsNumberList(v) \/ IsVector(v)

\* An axis left out or given as one number.
IsPoint(v) == v.t \in {"None", "number"}

\* The numbers of such an argument.
ValuesOf(v) ==
    IF v.t = "number" THEN <<v.n>>
    ELSE IF v.t = "list" THEN [i \in 1..Len(v.e) |-> v.e[i].n]
    ELSE v.e

\* The evaluations of _look_up_vs_ratio made so far in the current call.
Inversions ==
    IF fn \in RatioFns \cup {"_look_up_vs_ratio"} THEN 1..Len(calls) ELSE {}

\* An evaluation at a fixed (l, vds, vsb) whose two curves over the VGS axis
\* were looked up, for targets that are numbers, one at least.
CurvesReady(c) ==
    /\ IsPoint(c.l) /\ IsPoint(c.vds) /\ IsPoint(c.vsb)
    /\ c.frame.x_calc # <<>>
    /\ c.frame.y_calc # <<>>
    /\ IsNumeric(c.x_desired)
    /\ ValuesOf(c.x_desired) # <<>>

OutOfRange(c) ==
    \E k \in 1..Len(ValuesOf(c.x_desired)) :
        \/ RLt(ValuesOf(c.x_desired)[k], Least(c.frame.x_calc))
        \/ RLt(Greatest(c.frame.x_calc), ValuesOf(c.x_desired)[k])

\* C1: in every evaluation of _look_up_vs_ratio, whatever the targets (a
\* number, a list of numbers or a 1-D array, a nan among them or not) and
\* whatever the branch flags, a target below the least or above the greatest
\* value of x_calc over the full VGS axis makes the call raise the
\* Unachievable error at the feasibility check: no value comes back, and
\* neither the branch restriction nor interp1d has been reached.
C1_UnachievableBeforeRestriction ==
    \A i \in Inversions :
        CurvesReady(calls[i]) /\ OutOfRange(calls[i]) =>
            /\ ~calls[i].frame.ok
            /\ calls[i].frame.err = "Unachievable"
            /\ calls[i].frame.val.t = "None"
            /\ calls[i].frame.x_seg = <<>>
            /\ calls[i].frame.steps
                 = <<"normalize", "x_calc", "y_calc", "check">>

AtBoundary(c) ==
    \E k \in 1..Len(ValuesOf(c.x_desired)) :
        ValuesOf(c.x_desired)[k]
            \in {Least(c.frame.x_calc), Greatest(c.frame.x_calc)}

OneBranch(c) == ~(c.lim_left /\ c.lim_right)

Distinct(s) == \A i, j \in 1..Len(s) : i # j => s[i] # s[j]

\* C2: in every evaluation of _look_up_vs_ratio with no branch, the left
\* branch or the right branch selected, targets that all lie within
\* [min(x_calc), max(x_calc)] of the full curve, one of them exactly at
\* min(x_calc) or max(x_calc), succeed with one value per target.  (Stated
\* for the curves a cubic can be fitted to at all: no value of x_calc
\* repeats, and the branch kept has at least four points.)
C2_BoundaryTargetSucceeds ==
    \A i \in Inversions :
        /\ CurvesReady(calls[i])
        /\ OneBranch(calls[i])
        /\ ~OutOfRange(calls[i])
        /\ AtBoundary(calls[i])
        /\ Distinct(calls[i].frame.x_calc)
        /\ Len(calls[i].frame.x_seg) >= CubicOrder + 1
        => /\ calls[i].frame.ok
           /\ Len(calls[i].frame.val.e) = Len(ValuesOf(calls[i].x_desired))


\* The call in progress is look_up_basic and its four axes were normalized
\* to 1-D arrays of numbers.
ForwardAxes ==
    /\ fn = "look_up_basic"
    /\ pc \in {"done", "error"}
    /\ IsVector(loc.l) /\ IsVector(loc.vgs)
    /\ IsVector(loc.vds) /\ IsVector(loc.vsb)

ForwardShape ==
    <<loc.l.shape[1], loc.vgs.shape[1], loc.vds.shape[1], loc.vsb.shape[1]>>

\* The index tuples of a 4-D array of this shape.
Indices(shape) ==
    (1..shape[1]) \X (1..shape[2]) \X (1..shape[3]) \X (1..shape[4])

PointAt(idx) ==
    <<loc.l.e[idx[1]], loc.vgs.e[idx[2]], loc.vds.e[idx[3]], loc.vsb.e[idx[4]]>>

\* The offset of cell idx of a C-ordered array of this 4-D shape.
Offset4(idx, shape) ==
    ((((idx[1] - 1) * shape[2] + (idx[2] - 1)) * shape[3] + (idx[3] - 1))
        * shape[4]) + idx[4]

\* The quantities the table holds an interpolator for.
Quantities == {_out_vars[i] : i \in 1..Len(_out_vars)}

\* The name of the ratio of two quantities.
RatioName(a, b) == a \o <<"_">> \o b

\* The name of a quantity or of a ratio of two quantities.
Known(name) ==
    name \in Quantities \/ \E a, b \in Quantities : name = RatioName(a, b)

\* C3: the unsqueezed result of a forward lookup has shape
\* (n_l, n_vgs, n_vds, n_vsb), and its cell [i, j, k, m] is the named
\* quantity's interpolator at (l[i], vgs[j], vds[k], vsb[m]); for a ratio
\* name "A_B" the cell is A's value divided by B's value at that tuple.
C3_CartesianProduct ==
    ForwardAxes /\ pc = "done" =>
        /\ loc.raw.shape = ForwardShape
        /\ Len(loc.raw.e) = Prod(ForwardShape)
        /\ Known(args.out_var)
        /\ \A idx \in Indices(ForwardShape) :
              /\ args.out_var \in Quantities =>
                    loc.raw.e[Offset4(idx, ForwardShape)]
                      = EvalLinear(data_dict, args.out_var, PointAt(idx))
              /\ \A a, b \in Quantities :
                    args.out_var = RatioName(a, b) =>
                        loc.raw.e[Offset4(idx, ForwardShape)]
                          = RDiv(EvalLinear(data_dict, a, PointAt(idx)),
                                 EvalLinear(data_dict, b, PointAt(idx)))

\* A ratio looked up over three swept axes.
C3_Witness ==
    /\ ForwardAxes /\ pc = "done"
    /\ args.out_var = GM_ID
    /\ Len(loc.vgs.e) > 1 /\ Len(loc.l.e) > 1
    /\ Len(loc.vds.e) > 1

OutsideAxis(c, axis) == RLt(c, Least(axis)) \/ RLt(Greatest(axis), c)

PointOutside(p) ==
    \/ OutsideAxis(p[1], data_dict.L)
    \/ OutsideAxis(p[2], data_dict.VGS)
    \/ OutsideAxis(p[3], data_dict.VDS)
    \/ OutsideAxis(p[4], data_dict.VSB)

\* C4: a forward lookup of a quantity of the table or of a ratio of two,
\* with axes supplied or defaulted, raises OutOfDomain and returns no tensor
\* when a coordinate of a point of the Cartesian product lies outside the
\* table's axis, and returns a value for every point when all coordinates
\* lie within the axes.
C4_NoExtrapolation ==
    ForwardAxes /\ Known(args.out_var) =>
        IF \E idx \in Indices(ForwardShape) : PointOutside(PointAt(idx))
        THEN /\ pc = "error"
             /\ result.kind = "error"
             /\ result.err = "OutOfDomain"
             /\ result.val.t = "None"
        ELSE /\ pc = "done"
             /\ result.kind = "value"
             /\ Len(result.val.e) = Prod(ForwardShape)

\* A lookup that raised OutOfDomain for a defaulted axis (VSB 0 below the
\* table's VSB axis), every supplied coordinate being inside.
C4_Witness ==
    /\ ForwardAxes /\ Known(args.out_var)
    /\ args.vsb.t = "None" /\ args.vgs.t # "None"
    /\ result.err = "OutOfDomain"
    /\ \A idx \in Indices(ForwardShape) :
          ~OutsideAxis(PointAt(idx)[1], data_dict.L)
          /\ ~OutsideAxis(PointAt(idx)[2], data_dict.VGS)
          /\ ~OutsideAxis(PointAt(idx)[3], data_dict.VDS)


\* What _correct_arr was given to normalize: var, or default when var is
\* absent.
Given == IF args.var.t = "None" THEN args.default ELSE args.var

\* C5: _correct_arr gives the default for an absent value, a 1-element
\* array for a number and a 1-D numeric array with the same elements in the
\* same order for a list of numbers or a 1-D array; for a str, for a nested
\* list and for a list of non-numeric elements it raises InvalidInput and
\* returns no array.
C5_NormalizerRejectsOtherInputs ==
    fn = "_correct_arr" /\ pc \in {"done", "error"} =>
        IF Given.t = "number"
        THEN /\ result.kind = "value"
             /\ IsVector(result.val)
             /\ result.val.e = <<Given.n>>
        ELSE IF IsNumberList(Given) \/ IsVector(Given)
        THEN /\ result.kind = "value"
             /\ IsVector(result.val)
             /\ result.val.e = ValuesOf(Given)
        ELSE Given.t \in {"str", "list"} =>
                /\ pc = "error"
                /\ result.kind = "error"
                /\ result.err = "InvalidInput"

\* The arrays the axes were normalized to, in a forward lookup that got
\* that far or in a swept call that entered its loop, the axes being numbers.
AxesNormalized ==
    \/ ForwardAxes
    \/ /\ fn \in SweptFns /\ pc \in {"loop", "done", "error"}
       /\ IsVector(loc.l) /\ IsVector(loc.vds) /\ IsVector(loc.vsb)

DefaultOr(arg, default) ==
    IF arg.t = "None" THEN default ELSE ValuesOf(arg)

\* C6: on look_up_basic and on the four swept entry points each omitted
\* axis gets its own default whatever the other axes are: L the single
\* value min(L axis), VDS the single value max(VDS axis)/2, VSB the single
\* value 0 and, in forward lookup, VGS the table's full VGS axis; a supplied
\* axis keeps the values supplied, in their order.
C6_DefaultsPerAxis ==
    AxesNormalized =>
        /\ loc.l.e = DefaultOr(args.l, <<Least(data_dict.L)>>)
        /\ loc.vds.e
             = DefaultOr(args.vds, <<RDiv(Greatest(data_dict.VDS), R(2))>>)
        /\ loc.vsb.e = DefaultOr(args.vsb, <<Zero>>)
        /\ fn = "look_up_basic"
             => loc.vgs.e = DefaultOr(args.vgs, data_dict.VGS)

\* A forward lookup with L and VGS omitted and VDS supplied as 0.
C6_Witness ==
    /\ ForwardAxes
    /\ args.l.t = "None" /\ args.vgs.t = "None" /\ args.vsb.t # "None"
    /\ args.vds.t = "number" /\ args.vds.n = Zero
    /\ loc.vds.e = <<Zero>>
    /\ loc.l.e = <<data_dict.L[1]>>

\* The shape of the output of a sweep.
SweepShape ==
    <<loc.l.shape[1], loc.vds.shape[1], loc.vsb.shape[1],
      loc.x_desired.shape[1]>>

CallsAt(pos) == {c \in 1..Len(calls) : calls[c].pos = pos}

\* C7: when _look_up_vs_ratio_swp returns, the inversion has been evaluated
\* exactly once for every combination (l[i], vds[j], vsb[k]), each time
\* with the full target array and the table's full VGS axis whatever vgs the
\* caller passed; the output has shape (n_l, n_vds, n_vsb, n_targets) and
\* out[i, j, k, :] is the vector that evaluation returned.
C7_OncePerCombination ==
    fn \in RatioFns /\ pc = "done" =>
        /\ loc.out.shape = SweepShape
        /\ Len(calls) = SweepShape[1] * SweepShape[2] * SweepShape[3]
        /\ \A i \in 1..SweepShape[1], j \in 1..SweepShape[2],
              k \in 1..SweepShape[3] :
              /\ Cardinality(CallsAt(<<i, j, k>>)) = 1
              /\ \A c \in CallsAt(<<i, j, k>>) :
                    /\ calls[c].l = Items(loc.l)[i]
                    /\ calls[c].vds = Items(loc.vds)[j]
                    /\ calls[c].vsb = Items(loc.vsb)[k]
                    /\ calls[c].vgs = Vec(data_dict.VGS)
                    /\ calls[c].x_desired = loc.x_desired
                    /\ IsNumeric(args.x_desired)
                          => calls[c].x_desired.e = ValuesOf(args.x_desired)
                    /\ calls[c].x_name = XNameOf(fn)
                    /\ \A t \in 1..SweepShape[4] :
                          loc.out.e[Offset4(<<i, j, k, t>>, SweepShape)]
                            = calls[c].frame.val.e[t]

\* A sweep over two axes and two targets that returned, the caller having
\* passed a vgs of its own.
C7_Witness ==
    /\ fn \in RatioFns /\ pc = "done"
    /\ args.vgs.t # "None"
    /\ Len(calls) >= 4
    /\ IsVector(loc.x_desired) /\ Len(loc.x_desired.e) >= 2


\* A public entry point that squeezes has returned; Unsqueezed is the
\* tensor it squeezed.
SqueezedReturn ==
    pc = "done" /\ fn \in SweptFns \cup {"look_up_basic"}

Unsqueezed == IF fn = "look_up_basic" THEN loc.raw ELSE loc.out

Kept(shape) == {d \in 1..Len(shape) : shape[d] # 1}

\* The r-th axis, in the original order, whose length is not 1.
NthKept(shape, r) ==
    CHOOSE d \in Kept(shape) :
        Cardinality({d2 \in Kept(shape) : d2 < d}) = r - 1

\* The offset, in a C-ordered array of the kept axes, of the cell at idx.
RECURSIVE KeptOffset(_, _, _, _)
KeptOffset(idx, shape, d, acc) ==
    IF d > Len(shape) THEN acc + 1
    ELSE IF shape[d] = 1 THEN KeptOffset(idx, shape, d + 1, acc)
    ELSE KeptOffset(idx, shape, d + 1, acc * shape[d] + (idx[d] - 1))

\* C8: what look_up_basic and the swept entry points return is the
\* unsqueezed tensor without its axes of length 1, the other axes in their
\* original order and every cell kept: a scalar (no axis left) when all
\* four axes have length 1, a vector of length n when exactly one axis has
\* length n > 1.
C8_SqueezeRemovesSingletons ==
    SqueezedReturn =>
        /\ result.kind = "value"
        /\ Len(result.val.shape) = Cardinality(Kept(Unsqueezed.shape))
        /\ \A r \in 1..Len(result.val.shape) :
              result.val.shape[r]
                = Unsqueezed.shape[NthKept(Unsqueezed.shape, r)]
        /\ \A idx \in Indices(Unsqueezed.shape) :
              result.val.e[KeptOffset(idx, Unsqueezed.shape, 1, 0)]
                = Unsqueezed.e[Offset4(idx, Unsqueezed.shape)]
        /\ Kept(Unsqueezed.shape) = {} =>
              result.val.shape = <<>> /\ Len(result.val.e) = 1
        /\ \A d \in 1..4 :
              Kept(Unsqueezed.shape) = {d} =>
                  result.val.shape = <<Unsqueezed.shape[d]>>

\* A forward lookup swept over VGS alone, in the second of four axes, that
\* returned a plain vector.
C8_Witness ==
    /\ SqueezedReturn /\ fn = "look_up_basic"
    /\ Kept(loc.raw.shape) = {2}
    /\ result.val.shape = <<loc.raw.shape[2]>>

\* C9: in a swept entry point, an evaluation that fails is the last one
\* made (no retry, no later combination evaluated), no combination is
\* evaluated twice, and the call then ends in that error with no tensor
\* returned, whatever cells were computed before.
C9_NoPartialResults ==
    fn \in SweptFns =>
        /\ \A c \in 1..Len(calls) :
              ~calls[c].frame.ok =>
                  /\ c = Len(calls)
                  /\ pc = "error"
                  /\ result.kind = "error"
                  /\ result.err = calls[c].frame.err
        /\ \A c, c2 \in 1..Len(calls) :
              c # c2 => calls[c].pos # calls[c2].pos
        /\ pc = "error" => result.kind = "error" /\ result.val.t = "None"
        /\ result.kind = "value" =>
              pc = "done" /\ \A c \in 1..Len(calls) : calls[c].frame.ok

\* A sweep that raised at its third combination, two rows of the output
\* being already computed.
C9_Witness ==
    /\ fn \in SweptFns /\ pc = "error"
    /\ Len(calls) = 3
    /\ ~calls[3].frame.ok
    /\ loc.out.e[1] # ZeroCell
    /\ result.val.t = "None"

\* The first position of the greatest value of the curve.
Peak(x) ==
    CHOOSE p \in 1..Len(x) :
        /\ x[p] = Greatest(x)
        /\ \A q \in 1..(p - 1) : x[q] # Greatest(x)

Increasing(s) == \A i \in 1..(Len(s) - 1) : RLt(s[i], s[i + 1])
Decreasing(s) == \A i \in 1..(Len(s) - 1) : RLt(s[i + 1], s[i])
NonDecreasing(s) == \A i \in 1..(Len(s) - 1) : RLe(s[i], s[i + 1])
NonIncreasing(s) == \A i \in 1..(Len(s) - 1) : RLe(s[i + 1], s[i])

\* An evaluation that got to the branch restriction with one branch
\* selected.
Restricted(c) ==
    /\ CurvesReady(c)
    /\ c.lim_left # c.lim_right
    /\ Len(c.frame.steps) > 4

\* The pairs kept are those at 0..p for the left branch and at p..end for
\* the right branch, x and y cut alike.
KeepsBranch(c) ==
    LET p == Peak(c.frame.x_calc)
        n == Len(c.frame.x_calc)
    IN  IF c.lim_left
        THEN /\ c.frame.x_seg = SubSeq(c.frame.x_calc, 1, p)
             /\ c.frame.y_seg = SubSeq(c.frame.y_calc, 1, p)
        ELSE /\ c.frame.x_seg = SubSeq(c.frame.x_calc, p, n)
             /\ c.frame.y_seg = SubSeq(c.frame.y_calc, p, n)

\* The curve rises strictly up to its peak and falls strictly after it.
SinglePeak(x) ==
    /\ Increasing(SubSeq(x, 1, Peak(x)))
    /\ Decreasing(SubSeq(x, Peak(x), Len(x)))

\* C10 as claimed: with p the index of the maximum of x_calc, the left
\* branch keeps exactly the pairs at 0..p and the right branch those at
\* p..end, and for every x_calc curve the x segment kept is monotonic.
C10_SegmentMonotonicForEveryCurve ==
    \A i \in Inversions :
        Restricted(calls[i]) =>
            /\ KeepsBranch(calls[i])
            /\ \/ NonDecreasing(calls[i].frame.x_seg)
               \/ NonIncreasing(calls[i].frame.x_seg)

\* C10 as amended: the left branch keeps exactly the pairs at 0..p and the
\* right branch those at p..end, x and y cut at the same indices; the x
\* segment kept is strictly monotonic when x_calc rises strictly up to its
\* peak and falls strictly after it.
C10_SegmentMonotonicForSinglePeak ==
    \A i \in Inversions :
        Restricted(calls[i]) =>
            /\ KeepsBranch(calls[i])
            /\ SinglePeak(calls[i].frame.x_calc) =>
                  IF calls[i].lim_left
                  THEN Increasing(calls[i].frame.x_seg)
                  ELSE Decreasing(calls[i].frame.x_seg)

\* A left-of-peak inversion of a curve with a single peak strictly inside
\* the VGS axis that returned values.
C10_Witness ==
    \E i \in Inversions :
        /\ Restricted(calls[i])
        /\ calls[i].lim_left
        /\ SinglePeak(calls[i].frame.x_calc)
        /\ Peak(calls[i].frame.x_calc) > 1
        /\ Peak(calls[i].frame.x_calc) < Len(calls[i].frame.x_calc)
        /\ Len(calls[i].frame.x_seg) = Peak(calls[i].frame.x_calc)
        /\ calls[i].frame.ok

====
